---- MODULE Spec2Model ----
(***************************************************************************)
(* Verification model of the secure-aggregation package of privacy-utils:  *)
(*   - secrets.ts   (Shamir-style splitSecret / reconstructSecret)         *)
(*   - masking.ts   (pairwise masks, applyAllMasks, aggregateVectors)      *)
(*   - aggregator.ts (SecureAggregationAggregator, the coordinator)        *)
(*   - client.ts    (SecureAggregationClient, the participant)             *)
(* Each component has its own specification over the shared variables; the *)
(* variables of the components a specification does not use stay idle.     *)
(***************************************************************************)
EXTENDS Integers, Sequences, FiniteSets, TLC

VARIABLES
    shamir,     \* one splitSecret call followed by one reconstructSecret call
    masking,    \* one masking round computed with the pure masking functions
    aggregator, \* SecureAggregationAggregator: config, clients, state
    sockets,    \* the server side of each WebSocket: "new", "open", "closed"
    sent,       \* per WebSocket, the messages the aggregator sent on it
    received,   \* number of messages the aggregator has handled
    history,    \* of the started round: admitted clients and dropouts; and
                \* the aggregation results published so far
    client,     \* SecureAggregationClient: config, state, ws, reconnectAttempts
    webSockets, \* readyState of every WebSocket the client created
    timers,     \* number of pending reconnect timeouts of the client
    outbox,     \* the messages the client sent, in order
    pending,    \* submitVector calls suspended in `await generateAllMasks`
    calls,      \* the client's public calls: count, last steps, last error
    tracker,    \* BudgetTracker: remainingBudget, spentBudget; the last spend
    rng,        \* one randomInt call: arguments, accumulator, returned value
    voprf,      \* VOPRF server state, the redeemToken calls and their responses
    distribution, \* one distributeShares call: arguments, secrets drawn, result
    batch       \* DPBatchProcessor: its tracker, its results, the last call

vars == <<shamir, masking, aggregator, sockets, sent, received, history,
          client, webSockets, timers, outbox, pending, calls, tracker,
          rng, voprf, distribution, batch>>

pureVars == <<shamir, masking, tracker, rng, voprf, distribution, batch>>
aggVars == <<aggregator, sockets, sent, received, history>>
cliVars == <<client, webSockets, timers, outbox, pending, calls>>

\* The WebSocket connections the server accepts
Conns == {"w1", "w2"}

\* The state of a component no call was made on
ShamirIdle == shamir = [pc |-> "idle"]
MaskIdle == masking = [pc |-> "idle"]
TrackerIdle == tracker = [pc |-> "idle"]
RngIdle == rng = [pc |-> "idle"]
VoprfIdle == voprf = [pc |-> "idle"]
DistributionIdle == distribution = [pc |-> "idle"]
BatchIdle == batch = [pc |-> "idle"]
AggIdle ==
    /\ aggregator = [pc |-> "idle"]
    /\ sockets = [ws \in Conns |-> "idle"]
    /\ sent = [ws \in Conns |-> <<>>]
    /\ received = 0
    /\ history = [admitted |-> {}, dropped |-> {}, unsubmitted |-> {},
                  published |-> <<>>, expired |-> FALSE,
                  last |-> [type |-> "", clientId |-> "", ws |-> "",
                           aggregated |-> FALSE]]
ClientIdle ==
    /\ client = [pc |-> "idle"]
    /\ webSockets = <<>>
    /\ timers = 0
    /\ outbox = <<>>
    /\ pending = <<>>
    /\ calls = [count |-> 0]

(***************************************************************************)
(* Generic helpers                                                         *)
(***************************************************************************)

\* The sequences over S of length exactly n
SeqsOfLen(S, n) == [1..n -> S]

\* The sequences over S of length 0..n
SeqsUpTo(S, n) == UNION {SeqsOfLen(S, k) : k \in 0..n}

\* The sequences over S without repetition, of length 0..n
RECURSIVE DistinctSeqs(_, _)
DistinctSeqs(S, n) ==
    IF n = 0 THEN {<<>>}
    ELSE LET shorter == DistinctSeqs(S, n - 1)
         IN  shorter \cup
             {Append(s, x) : <<s, x>> \in
                 {p \in shorter \X S :
                     /\ Len(p[1]) = n - 1
                     /\ \A i \in 1..Len(p[1]) : p[1][i] # p[2]}}

RECURSIVE SumSeq(_)
SumSeq(s) == IF s = <<>> THEN 0 ELSE Head(s) + SumSeq(Tail(s))

(***************************************************************************)
(* secrets.ts                                                              *)
(***************************************************************************)

\* Bounds of the secret-sharing specification
MaxShares == 3
MaxSecretLen == 1

\* The byte values secrets and random coefficients are drawn from
ByteSamples == {0, 1, 255}

\* Uint8Array values of a given length / up to a length
Bytes(len) == SeqsOfLen(ByteSamples, len)

\* (xPower & 0xFF) of evaluatePolynomial: xPower is x^i with each product
\* kept as an unsigned 32-bit (>>> 0); only its low byte is used, and the low
\* byte of a product mod 2^32 is the product of the low bytes mod 2^8.
RECURSIVE xPower(_, _)
xPower(x, i) == IF i <= 1 THEN x % 256 ELSE (xPower(x, i - 1) * x) % 256

\* result[k] after the terms a_1 .. a_i have been added to a_0
RECURSIVE PolyTerm(_, _, _, _)
PolyTerm(coefficients, x, k, i) ==
    IF i = 1 THEN coefficients[1][k]
    ELSE (PolyTerm(coefficients, x, k, i - 1)
            + coefficients[i][k] * xPower(x, i - 1)) % 256

\* evaluatePolynomial(coefficients, x): coefficients[1] is a0
evaluatePolynomial(coefficients, x) ==
    [k \in 1..Len(coefficients[1]) |->
        PolyTerm(coefficients, x, k, Len(coefficients))]

\* generatePolynomial(secret, threshold), the randomBytes draws being `rnd`
generatePolynomial(secret, threshold, rnd) == <<secret>> \o rnd

\* A JavaScript value used as a byte array: a Uint8Array has a length and
\* indexed elements. length = -1 stands for undefined (see JsonRoundTrip).
Uint8Array(v) == [length |-> Len(v), elems |-> v]

\* A SecretShare record
Share(i, shareData, threshold) ==
    [clientId |-> "share_" \o ToString(i), shareIndex |-> i,
     shareData |-> Uint8Array(shareData), threshold |-> threshold]

\* A mutant of splitSecret: the loop stops one share early (i < totalShares)
splitSecretOffByOne(secret, totalShares, threshold, rnd) ==
    IF threshold > totalShares
    THEN [error |-> "Threshold cannot be greater than total shares", shares |-> <<>>]
    ELSE IF threshold < 2
    THEN [error |-> "Threshold must be at least 2", shares |-> <<>>]
    ELSE LET coefficients == generatePolynomial(secret, threshold, rnd)
         IN  [error |-> "",
              shares |-> [i \in 1..(totalShares - 1) |->
                            Share(i, evaluatePolynomial(coefficients, i), threshold)]]

\* splitSecret(secret, totalShares, threshold): the shares, or the error thrown
splitSecret(secret, totalShares, threshold, rnd) ==
    IF threshold > totalShares
    THEN [error |-> "Threshold cannot be greater than total shares", shares |-> <<>>]
    ELSE IF threshold < 2
    THEN [error |-> "Threshold must be at least 2", shares |-> <<>>]
    ELSE LET coefficients == generatePolynomial(secret, threshold, rnd)
         IN  [error |-> "",
              shares |-> [i \in 1..totalShares |->
                            Share(i, evaluatePolynomial(coefficients, i), threshold)]]

\* The while loop of modInverse on (a, m, x, y). When m is 0 the division
\* gives q = Infinity and m = NaN, a becomes 0 and x takes the old y: the
\* loop ends there with x finite.
RECURSIVE modInverseLoop(_, _, _, _)
modInverseLoop(a, m, x, y) ==
    IF a > 1
    THEN IF m = 0 THEN y
         ELSE modInverseLoop(m, a % m, y, x - (a \div m) * y)
    ELSE x

\* modInverse(a, m)
modInverse(a, m) ==
    IF m = 1 THEN 0
    ELSE LET x == modInverseLoop(a, m, 1, 0)
         IN  IF x < 0 THEN x + m ELSE x

\* basis of share j after the shares 1..k of the selection were visited
RECURSIVE Basis(_, _, _)
Basis(selectedShares, j, k) ==
    IF k = 0 THEN 1
    ELSE LET prev == Basis(selectedShares, j, k - 1)
         IN  IF j = k THEN prev
             ELSE LET xj == selectedShares[j].shareIndex
                      xk == selectedShares[k].shareIndex
                  IN  (prev * xk * modInverse(xk - xj, 256)) % 256

\* value of byte i after the shares 1..j of the selection were added
RECURSIVE LagrangeValue(_, _, _)
LagrangeValue(selectedShares, i, j) ==
    IF j = 0 THEN 0
    ELSE LET prev == LagrangeValue(selectedShares, i, j - 1)
             shareData == selectedShares[j].shareData
         IN  IF i \in DOMAIN shareData.elems
             THEN (prev + shareData.elems[i]
                            * Basis(selectedShares, j, Len(selectedShares))) % 256
             ELSE prev

NullSecret == [isNull |-> TRUE, bytes |-> <<>>]

\* The interpolation part of reconstructSecret, on the first threshold
\* shares; new Uint8Array(undefined) is empty
Interpolate(shares) ==
    LET threshold == shares[1].threshold
        selectedShares == SubSeq(shares, 1, threshold)
        length == selectedShares[1].shareData.length
        secretLength == IF length < 0 THEN 0 ELSE length
    IN  [isNull |-> FALSE,
         bytes |-> [i \in 1..secretLength |->
                      LagrangeValue(selectedShares, i, Len(selectedShares))]]

\* A mutant of reconstructSecret: the shares.length < threshold test is gone
reconstructSecretNoThreshold(shares) ==
    IF Len(shares) = 0 THEN NullSecret
    ELSE [isNull |-> FALSE,
          bytes |-> [i \in 1..shares[1].shareData.length |->
                       LagrangeValue(shares, i, Len(shares))]]

\* reconstructSecret(shares): null, or the interpolated bytes
reconstructSecret(shares) ==
    IF Len(shares) = 0 THEN NullSecret
    ELSE IF Len(shares) < shares[1].threshold THEN NullSecret
    ELSE Interpolate(shares)

(***************************************************************************)
(* masking.ts                                                              *)
(***************************************************************************)

\* Client identifiers are one-character strings; their charCodeAt(0)
ClientIds == {"A", "B", "C"}
CharCode == [A |-> 65, B |-> 66, C |-> 67]

\* Round identifiers and the charCodeAt(0) of each ('r')
RoundIds == {"r1", "r2"}
RoundCharCode == [r1 |-> 114, r2 |-> 114]

\* Pairwise shared secrets are opaque byte strings, named by small numbers
SecretSamples == {1, 2}

\* Stand-in for the byte sum of deriveKey(sharedSecret, <<>>, 32, 'SHA-256',
\* 1000): PBKDF2 is a deterministic function of the secret, its 32 output
\* bytes sum to 0..8160.
DerivedKeyByteSum(sharedSecret) == (sharedSecret * 2654 + 777) % 8161

\* Fixed-point stand-in for Math.sin(combined) * 1000: the phase of
\* `combined` radians in 710ths of a turn (pi ~ 355/113), then Bhaskara's
\* rational approximation of the sine on a half turn.
SinTimes1000(combined) ==
    LET phase == ((combined % 710) * 113) % 710
        p == IF phase <= 355 THEN phase ELSE phase - 355
        half == (16000 * p * (355 - p)) \div (5 * 355 * 355 - 4 * p * (355 - p))
    IN  IF phase <= 355 THEN half ELSE 0 - half

\* (a + b) % 2^31 for a, b in 0..2^31-1, without leaving 32-bit integers
AddMod2_31(a, b) ==
    IF a > 2147483647 - b THEN (a - 2147483647) + (b - 1) ELSE a + b

\* (seedValue * 1103515245 + 12345) % 2147483648, the linear congruential
\* step, computed on 16-bit limbs (1103515245 = 16838 * 2^16 + 20077). The
\* double product of the source is rounded above 2^53; the model keeps the
\* exact product.
LcgStep(seedValue) ==
    LET a1 == seedValue \div 65536
        a0 == seedValue % 65536
        mid == (((a1 * 20077) % 32768) + ((a0 * 16838) % 32768)) % 32768
    IN  AddMod2_31(AddMod2_31(mid * 65536, a0 * 20077), 12345)

\* seedValue before iteration i (0-based) of the loop of generatePairwiseMask
RECURSIVE SeedAt(_, _)
SeedAt(seed0, i) == IF i = 0 THEN seed0 ELSE LcgStep(SeedAt(seed0, i - 1))

\* generatePairwiseMask(vector, sharedSecret, roundId, peerId); only the
\* length of `vector` is used
generatePairwiseMask(length, sharedSecret, roundId, peerId) ==
    \* the byte sum plus a char code is below 2^31: % 2147483648 keeps it
    LET seed0 == DerivedKeyByteSum(sharedSecret) + RoundCharCode[roundId]
    IN  [i \in 1..length |->
            SinTimes1000(SeedAt(seed0, i - 1) + (i - 1) + CharCode[peerId])]

\* applyMask(vector, mask) and addVectors(a, b) on Float64Arrays of equal
\* length (both throw otherwise)
applyMask(vector, mask) == [i \in 1..Len(vector) |-> vector[i] + mask[i]]

\* generateAllMasks(vector, sharedSecrets, roundId, clientId): sharedSecrets
\* is a function peerId -> secret; the result is a function peerId -> mask
generateAllMasks(vector, sharedSecrets, roundId, clientId) ==
    [peerId \in (DOMAIN sharedSecrets) \ {clientId} |->
        generatePairwiseMask(Len(vector), sharedSecrets[peerId], roundId, peerId)]

\* result of applyAllMasks after the masks of the peers in `todo` were added
RECURSIVE ApplyMasksOf(_, _, _)
ApplyMasksOf(result, masks, todo) ==
    IF todo = {} THEN result
    ELSE LET peerId == CHOOSE x \in todo : TRUE
         IN  ApplyMasksOf(applyMask(result, masks[peerId]), masks, todo \ {peerId})

\* applyAllMasks(vector, masks): integer addition commutes, so the order of
\* masks.values() does not show
applyAllMasks(vector, masks) == ApplyMasksOf(vector, masks, DOMAIN masks)

\* A JavaScript value used as a vector: a Float64Array has a buffer, a length
\* and indexed elements; JSON.stringify writes a typed array as the object
\* {"0": .., "1": ..}, so what JSON.parse gives back has neither buffer nor
\* length. length = -1 stands for undefined.
Float64Array(v) ==
    [typed |-> TRUE, hasBuffer |-> TRUE, buffer |-> v, length |-> Len(v), elems |-> v]

\* JSON.parse(JSON.stringify(value)) of a vector value: a typed array comes
\* back as a plain object with the indexed elements only; a plain object
\* comes back as it was
JsonRoundTrip(value) ==
    IF value.typed
    THEN [typed |-> FALSE, hasBuffer |-> FALSE, buffer |-> <<>>, length |-> -1,
          elems |-> value.elems]
    ELSE value

\* b[i] ?? 0
ElemOrZero(b, i) == IF i \in DOMAIN b.elems THEN b.elems[i] ELSE 0

Threw == [threw |-> TRUE, vector |-> <<>>]
Returned(v) == [threw |-> FALSE, vector |-> v]

\* result of aggregateVectors after vectors[2..i] were added with addVectors,
\* which throws when the lengths differ
RECURSIVE AddFrom(_, _)
AddFrom(vectors, i) ==
    IF i = 1 THEN Returned(vectors[1].buffer)
    ELSE LET prev == AddFrom(vectors, i - 1)
         IN  IF prev.threw \/ Len(prev.vector) # vectors[i].length THEN Threw
             ELSE Returned([k \in 1..Len(prev.vector) |->
                              prev.vector[k] + ElemOrZero(vectors[i], k)])

\* aggregateVectors(vectors): throws on an empty list, and when the first
\* vector has no buffer (firstVector.buffer.slice is a TypeError)
aggregateVectors(vectors) ==
    IF Len(vectors) = 0 THEN Threw
    ELSE IF ~vectors[1].hasBuffer THEN Threw
    ELSE AddFrom(vectors, Len(vectors))

\* Element-wise sum of a non-empty sequence of equal-length number sequences
RECURSIVE VectorSum(_)
VectorSum(vs) ==
    IF Len(vs) = 1 THEN vs[1]
    ELSE LET rest == VectorSum(Tail(vs))
         IN  [k \in 1..Len(vs[1]) |-> vs[1][k] + rest[k]]

\* A set as a sequence, in a fixed order
RECURSIVE SetToSeq(_)
SetToSeq(S) ==
    IF S = {} THEN <<>>
    ELSE LET x == CHOOSE y \in S : TRUE IN <<x>> \o SetToSeq(S \ {x})

(***************************************************************************)
(* aggregator.ts: SecureAggregationAggregator                              *)
(***************************************************************************)

\* A JavaScript Map keeps insertion order: a sequence of [key, value]
MapKeys(m) == {m[i].key : i \in DOMAIN m}
MapHas(m, k) == k \in MapKeys(m)
MapGet(m, k) == m[CHOOSE i \in DOMAIN m : m[i].key = k].value
MapSet(m, k, v) ==
    IF MapHas(m, k)
    THEN [i \in DOMAIN m |-> IF m[i].key = k THEN [key |-> k, value |-> v] ELSE m[i]]
    ELSE Append(m, [key |-> k, value |-> v])
MapDelete(m, k) ==
    LET keep(e) == e.key # k IN SelectSeq(m, keep)

\* Bound: the number of messages the aggregator handles in a run (key
\* exchange messages, which change nothing, are not counted)
MaxMessages == 3

\* A message the aggregator sends; count is expectedClients of round_started
\* and participantCount of aggregation_result, result the JSON form of the
\* result vector
Message(type, roundId, count, result, errorCode) ==
    [type |-> type, roundId |-> roundId, count |-> count, result |-> result,
     errorCode |-> errorCode]

\* createInitialState()
createInitialAggregatorState(config) ==
    [roundId |-> "", clients |-> {},
     expectedClients |-> config.protocolConfig.minClients,
     receivedShares |-> <<>>, maskedVectors |-> <<>>, recoveredSecrets |-> <<>>,
     aggregatedResult |-> Threw]

\* broadcastMessage(message): one send per entry of the clients map whose
\* socket is open
broadcastMessage(snt, clients, socks, message) ==
    [ws \in Conns |->
        IF socks[ws] = "open"
        THEN LET isWs(e) == e.value = ws
             IN  snt[ws] \o [i \in 1..Len(SelectSeq(clients, isWs)) |-> message]
        ELSE snt[ws]]

\* A mutant of sendError: the error is broadcast instead of sent to ws
sendErrorToAll(snt, ws, errorCode) ==
    [other \in Conns |-> Append(snt[other], Message("error", "", 0, <<>>, errorCode))]

\* sendError(ws, errorCode, errorMessage)
sendError(snt, ws, errorCode) ==
    [snt EXCEPT ![ws] = Append(@, Message("error", "", 0, <<>>, errorCode))]

\* broadcastError(errorCode, errorMessage)
broadcastError(snt, clients, socks, errorCode) ==
    broadcastMessage(snt, clients, socks, Message("error", "", 0, <<>>, errorCode))

\* startAggregationRound(roundId): the state after it
startAggregationRound(state, roundId) ==
    [state EXCEPT !.roundId = roundId, !.maskedVectors = <<>>,
                  !.receivedShares = <<>>, !.recoveredSecrets = <<>>]

\* The vectors performAggregation collects, in the order of the map
CollectedVectors(state) ==
    [i \in DOMAIN state.maskedVectors |-> state.maskedVectors[i].value.vector]

\* performAggregation(): the aggregator and the sent messages after it
performAggregation(agg, snt, socks) ==
    LET aggregatedMasked == aggregateVectors(CollectedVectors(agg.state))
    IN  IF aggregatedMasked.threw
        THEN [aggregator |-> agg, published |-> FALSE,
              sent |-> broadcastError(snt, agg.clients, socks, "AGGREGATION_FAILED")]
        ELSE [aggregator |-> [agg EXCEPT !.state.aggregatedResult = aggregatedMasked],
              published |-> TRUE,
              sent |-> broadcastMessage(snt, agg.clients, socks,
                          Message("aggregation_result", agg.state.roundId,
                                  Cardinality(agg.state.clients),
                                  aggregatedMasked.vector, ""))]

\* The shares attemptRecovery collects for the dropped client
RECURSIVE SharesForClient(_, _)
SharesForClient(receivedShares, droppedClientId) ==
    IF receivedShares = <<>> THEN <<>>
    ELSE LET isDropped(share) == share.clientId = droppedClientId
         IN  SelectSeq(Head(receivedShares).value, isDropped)
                \o SharesForClient(Tail(receivedShares), droppedClientId)

\* attemptRecovery(droppedClientId): the state after it; a Uint8Array, also
\* an empty one, is truthy
attemptRecovery(state, droppedClientId) ==
    LET recoveredSecret ==
            reconstructSecret(SharesForClient(state.receivedShares, droppedClientId))
    IN  IF recoveredSecret.isNull THEN state
        ELSE [state EXCEPT !.recoveredSecrets =
                              MapSet(@, droppedClientId, recoveredSecret.bytes)]

\* The round the clients of a run join
JoinedRound == "r1"

\* The private vector of each client and the secret each pair shares
PrivateVector == [A |-> <<1>>, B |-> <<2>>, C |-> <<4>>]
SharedSecret(a, b) == IF "C" \in {a, b} THEN 2 ELSE 1

\* The masked vector client c builds in submitVector for the round, its
\* peers being the other admitted clients
MaskedVectorOf(c, peers, roundId) ==
    LET sharedSecrets == [peer \in peers \ {c} |-> SharedSecret(c, peer)]
    IN  applyAllMasks(PrivateVector[c],
                      generateAllMasks(PrivateVector[c], sharedSecrets, roundId, c))

\* What the aggregator parses from the submit_vector message of client c
HonestVector(c) ==
    JsonRoundTrip(Float64Array(
        MaskedVectorOf(c, history.admitted, JoinedRound)))

\* A vector a peer can write by hand in JSON: {"buffer": [7], "length": 1, "0": 7}
CraftedVector ==
    [typed |-> FALSE, hasBuffer |-> TRUE, buffer |-> <<7>>, length |-> 1,
     elems |-> <<7>>]

\* The shares a secret_share message carries: what JSON.parse gives for the
\* shares of a splitSecret call (share data without length), or shares
\* written by hand for a client id
ParsedShare(share) == [share EXCEPT !.shareData.length = -1]
ShareSamples(c) ==
    {[i \in 1..2 |-> ParsedShare(splitSecret(<<1>>, 2, 2, <<<<1>>>>).shares[i])],
     <<[clientId |-> c, shareIndex |-> 1, shareData |-> Uint8Array(<<9>>),
        threshold |-> 1]>>}

(***************************************************************************)
(* The aggregator specification (Spec): connections open, send any         *)
(* sequence of protocol messages and close; each handler runs atomically.  *)
(***************************************************************************)

\* The protocol configurations: minClients, maxClients, dropoutTolerance
ConfigSamples ==
    {[vectorSize |-> 1, minClients |-> m, maxClients |-> 2, dropoutTolerance |-> k,
      secretThreshold |-> 2] : <<m, k>> \in {<<1, 0>>, <<2, 0>>, <<2, 1>>}}

AggInit ==
    /\ \E protocolConfig \in ConfigSamples :
         LET config == [protocolConfig |-> protocolConfig]
         IN  aggregator = [config |-> config, clients |-> <<>>,
                           state |-> createInitialAggregatorState(config)]
    /\ sockets = [ws \in Conns |-> "new"]
    /\ sent = [ws \in Conns |-> <<>>]
    /\ received = 0
    /\ history = [admitted |-> {}, dropped |-> {}, unsubmitted |-> {},
                  published |-> <<>>, expired |-> FALSE,
                  last |-> [type |-> "", clientId |-> "", ws |-> "",
                           aggregated |-> FALSE]]

\* The history after a message of the type was handled: clientId is the
\* message's clientId, ws the connection for the handlers that use it
Handled(h, type, clientId, ws) ==
    [h EXCEPT !.last = [type |-> type, clientId |-> clientId, ws |-> ws,
                        aggregated |-> FALSE]]

\* server.on('connection')
Connection(ws) ==
    /\ sockets[ws] = "new"
    /\ sockets' = [sockets EXCEPT ![ws] = "open"]
    /\ UNCHANGED <<aggregator, sent, received, history, pureVars, cliVars>>

CanReceive(ws) == sockets[ws] = "open" /\ received < MaxMessages

\* handleJoinRound(ws, {clientId, roundId})
handleJoinRound(ws, clientId, roundId) ==
    /\ CanReceive(ws)
    /\ LET joined == [aggregator EXCEPT
                        !.clients = MapSet(@, clientId, ws),
                        !.state.clients = @ \cup {clientId}]
           starts == Cardinality(joined.state.clients)
                        >= joined.config.protocolConfig.minClients
       IN  IF starts
           THEN /\ aggregator' = [joined EXCEPT
                                    !.state = startAggregationRound(@, roundId)]
                /\ sent' = broadcastMessage(sent, joined.clients, sockets,
                              Message("round_started", roundId,
                                      Cardinality(joined.state.clients), <<>>, ""))
                /\ history' = Handled(
                                 [history EXCEPT !.admitted = joined.state.clients,
                                                 !.dropped = {}, !.unsubmitted = {},
                                                 !.expired = FALSE],
                                 "join_round", clientId, ws)
           ELSE /\ aggregator' = joined
                /\ history' = Handled(history, "join_round", clientId, ws)
                /\ UNCHANGED sent
    /\ received' = received + 1
    /\ UNCHANGED <<sockets, pureVars, cliVars>>

\* handleKeyExchange(ws, message): logs only
handleKeyExchange(ws) ==
    /\ sockets[ws] = "open"
    /\ UNCHANGED <<aggVars, pureVars, cliVars>>

\* handleSubmitVector(_ws, {clientId, maskedVector}), on any open socket
handleSubmitVector(clientId, vector) ==
    /\ \E ws \in Conns : CanReceive(ws)
    /\ LET maskedVector == [clientId |-> clientId,
                            roundId |-> aggregator.state.roundId,
                            vector |-> vector]
           stored == [aggregator EXCEPT
                        !.state.maskedVectors = MapSet(@, clientId, maskedVector)]
       IN  IF Len(stored.state.maskedVectors) >= Cardinality(stored.state.clients)
           THEN LET after == performAggregation(stored, sent, sockets)
                IN  /\ aggregator' = after.aggregator
                    /\ sent' = after.sent
                    /\ history' = [Handled(
                          IF after.published
                          THEN [history EXCEPT !.published = Append(@,
                                  [roundId |-> stored.state.roundId,
                                   result |-> after.aggregator.state.aggregatedResult.vector,
                                   participantCount |-> Cardinality(stored.state.clients),
                                   admitted |-> stored.state.clients,
                                   summed |-> MapKeys(stored.state.maskedVectors)])]
                          ELSE history,
                          "submit_vector", clientId, "")
                            EXCEPT !.last.aggregated = TRUE]
           ELSE /\ aggregator' = stored
                /\ history' = Handled(history, "submit_vector", clientId, "")
                /\ UNCHANGED sent
    /\ received' = received + 1
    /\ UNCHANGED <<sockets, pureVars, cliVars>>

\* handleSecretShare(_ws, {clientId, shares}), on any open socket
handleSecretShare(clientId, shares) ==
    /\ \E ws \in Conns : CanReceive(ws)
    /\ aggregator' = [aggregator EXCEPT !.state.receivedShares =
                        IF MapHas(@, clientId)
                        THEN MapSet(@, clientId, MapGet(@, clientId) \o shares)
                        ELSE MapSet(@, clientId, shares)]
    /\ history' = Handled(history, "secret_share", clientId, "")
    /\ received' = received + 1
    /\ UNCHANGED <<sockets, sent, pureVars, cliVars>>

\* handleMessage(ws, message) with a type that has no handler
handleUnknownMessage(ws) ==
    /\ CanReceive(ws)
    /\ sent' = sendError(sent, ws, "UNKNOWN_MESSAGE_TYPE")
    /\ history' = Handled(history, "unknown", "", ws)
    /\ received' = received + 1
    /\ UNCHANGED <<aggregator, sockets, pureVars, cliVars>>

\* ws.on('message') with data JSON.parse rejects
handleUnparsableMessage(ws) ==
    /\ CanReceive(ws)
    /\ sent' = sendError(sent, ws, "INVALID_MESSAGE")
    /\ history' = Handled(history, "unparsable", "", ws)
    /\ received' = received + 1
    /\ UNCHANGED <<aggregator, sockets, pureVars, cliVars>>

\* ws.on('close'): handleClientDisconnect(ws) removes the first client id
\* registered to ws and attempts its recovery
handleClientDisconnect(ws) ==
    /\ sockets[ws] = "open"
    /\ sockets' = [sockets EXCEPT ![ws] = "closed"]
    /\ LET isWs(e) == e.value = ws
           found == SelectSeq(aggregator.clients, isWs)
       IN  IF found = <<>>
           THEN UNCHANGED <<aggregator, history>>
           ELSE LET clientId == found[1].key
                IN  /\ aggregator' = [aggregator EXCEPT
                          !.clients = MapDelete(@, clientId),
                          !.state = attemptRecovery(
                                      [@ EXCEPT !.clients = @ \ {clientId}], clientId)]
                    /\ history' =
                         IF clientId \in history.admitted
                         THEN [history EXCEPT
                                 !.dropped = @ \cup {clientId},
                                 !.unsubmitted =
                                    IF MapHas(aggregator.state.maskedVectors, clientId)
                                    THEN @ ELSE @ \cup {clientId}]
                         ELSE history
    /\ UNCHANGED <<sent, received, pureVars, cliVars>>

\* protocolConfig.roundTimeout milliseconds have passed since the round
\* started. No code reads roundTimeout and no timer is set: nothing runs.
roundTimeoutElapsed ==
    /\ aggregator.state.roundId # ""
    /\ ~history.expired
    /\ history' = [history EXCEPT !.expired = TRUE]
    /\ UNCHANGED <<aggregator, sockets, sent, received, pureVars, cliVars>>

\* The messages and events the aggregator is given
JoinRoundReceived ==
    \E ws \in Conns, clientId \in ClientIds : handleJoinRound(ws, clientId, JoinedRound)
SubmitVectorReceived ==
    \E clientId \in ClientIds :
        \E vector \in {HonestVector(clientId), CraftedVector} :
            handleSubmitVector(clientId, vector)
SecretShareReceived ==
    \E clientId \in ClientIds :
        \E shares \in ShareSamples(clientId) : handleSecretShare(clientId, shares)

Next ==
    \/ \E ws \in Conns : Connection(ws)
    \/ JoinRoundReceived
    \/ \E ws \in Conns : handleKeyExchange(ws)
    \/ SubmitVectorReceived
    \/ SecretShareReceived
    \/ \E ws \in Conns : handleUnknownMessage(ws)
    \/ \E ws \in Conns : handleUnparsableMessage(ws)
    \/ \E ws \in Conns : handleClientDisconnect(ws)
    \/ roundTimeoutElapsed

\* The aggregator alone: no client object, no pure-function call
Init == AggInit /\ ShamirIdle /\ MaskIdle /\ TrackerIdle /\ RngIdle /\ VoprfIdle /\ ClientIdle
                  /\ DistributionIdle /\ BatchIdle

Spec == Init /\ [][Next]_vars

\* A round was started, with dropoutTolerance k
Started == aggregator.state.roundId # ""
DropoutTolerance == aggregator.config.protocolConfig.dropoutTolerance

\* The admitted clients that did not disconnect
Survivors == history.admitted \ history.dropped

\* The open sockets registered to a client id
ConnectedClientSockets ==
    {ws \in Conns : sockets[ws] = "open"
                     /\ \E i \in DOMAIN aggregator.clients : aggregator.clients[i].value = ws}

HasMessage(ws, type) == \E i \in DOMAIN sent[ws] : sent[ws][i].type = type

\* k >= 1 admitted clients disconnected, each before submitting, and every
\* other admitted client submitted the vector it masked for the round;
\* nothing else was submitted
DropoutsWithinTolerance ==
    /\ Started
    /\ DropoutTolerance >= 1
    /\ Cardinality(history.dropped) = DropoutTolerance
    /\ history.unsubmitted = history.dropped
    /\ Survivors # {}
    /\ aggregator.state.clients = Survivors
    /\ MapKeys(aggregator.state.maskedVectors) = Survivors
    /\ \A c \in Survivors :
          MapGet(aggregator.state.maskedVectors, c).vector = HonestVector(c)

\* C3 (dropout within tolerance): in a started round with dropoutTolerance
\* k, once exactly k admitted clients have disconnected before submitting
\* and every other admitted client has submitted, an aggregation result has
\* been broadcast to the connected clients, and it is the sum of the private
\* vectors of the clients that submitted. (Handlers run to completion and
\* the aggregator has no timer: what is not sent when the last of these
\* events has been handled is never sent.)
C3_DropoutWithinTolerance ==
    DropoutsWithinTolerance =>
        \A ws \in ConnectedClientSockets :
            \E i \in DOMAIN sent[ws] :
                /\ sent[ws][i].type = "aggregation_result"
                /\ sent[ws][i].result =
                      VectorSum([j \in 1..Cardinality(Survivors) |->
                                    PrivateVector[SetToSeq(Survivors)[j]]])

\* More admitted clients disconnected than the round tolerates
DropoutsBeyondTolerance ==
    Started /\ Cardinality(history.dropped) >= DropoutTolerance + 1

\* C4 (dropout beyond tolerance): once k+1 admitted clients of a started
\* round have disconnected, every still-connected client has been sent an
\* error notification, and no aggregation result is published afterwards.
C4_DropoutBeyondTolerance ==
    [][/\ DropoutsBeyondTolerance' =>
            (\A ws \in ConnectedClientSockets' : HasMessage(ws, "error")')
       /\ DropoutsBeyondTolerance =>
            (DropoutsBeyondTolerance' => history'.published = history.published)]_vars

\* The started round has ended: its result was published, or an error
\* was sent to every connected client since it started
RoundEnded ==
    \/ \E i \in DOMAIN history.published :
          history.published[i].roundId = aggregator.state.roundId
    \/ /\ ConnectedClientSockets # {}
       /\ \A ws \in ConnectedClientSockets : HasMessage(ws, "error")

\* C11 (no silent hang): once the deadline of a started round has passed,
\* the round has ended, with a published aggregation result or with an error
\* notification to the connected clients, also when an admitted client
\* neither submitted nor disconnected.
C11_NoSilentHang == (Started /\ history.expired) => RoundEnded

\* This step sent exactly one message, an error, on ws and nothing on any
\* other connection
OneErrorSentTo(ws) ==
    /\ sent'[ws] = Append(sent[ws], sent'[ws][Len(sent'[ws])])
    /\ sent'[ws][Len(sent'[ws])].type = "error"
    /\ \A other \in Conns \ {ws} : sent'[other] = sent[other]

\* A disconnected client of the started round has no recovered secret:
\* attemptRecovery found fewer shares of it than the threshold
RecoveryFailed ==
    /\ Started
    /\ \E c \in history.dropped : ~MapHas(aggregator.state.recoveredSecrets, c)

\* C12 (recovery failure is round-fatal): the step in which the recovery of
\* a disconnected client fails sends an error to every connected client, and
\* no aggregation result is published for the round afterwards.
C12_RecoveryFailureFatal ==
    [][/\ (~RecoveryFailed /\ RecoveryFailed') =>
            \A ws \in ConnectedClientSockets' :
                /\ Len(sent'[ws]) > Len(sent[ws])
                /\ sent'[ws][Len(sent'[ws])].type = "error"
       /\ (RecoveryFailed /\ RecoveryFailed') =>
            history'.published = history.published]_vars

\* This step handled a submit_vector message of a client whose masked
\* vector is already recorded in the started round
DuplicateSubmission ==
    /\ Started
    /\ received' = received + 1
    /\ history'.last.type = "submit_vector"
    /\ MapHas(aggregator.state.maskedVectors, history'.last.clientId)

\* C13 (duplicate submission): a submit_vector message of a client that has
\* a recorded masked vector in the round is answered with one error message
\* and changes neither the recorded vector nor the rest of the round state.
C13_DuplicateSubmissionRejected ==
    [][DuplicateSubmission =>
          /\ aggregator' = aggregator
          /\ \E ws \in Conns : OneErrorSentTo(ws)]_vars

\* This step handled a message of unknown type or unparsable data
UnknownOrUnparsable ==
    /\ received' = received + 1
    /\ history'.last.type \in {"unknown", "unparsable"}

\* C14 (unknown or unparsable message): the message is answered with exactly
\* one error message, sent only on the connection it came from, and the
\* admitted set, the recorded vectors, the received shares and the recovered
\* secrets are unchanged.
C14_UnknownMessageError ==
    [][UnknownOrUnparsable =>
          /\ OneErrorSentTo(history'.last.ws)
          /\ aggregator'.state.clients = aggregator.state.clients
          /\ aggregator'.state.maskedVectors = aggregator.state.maskedVectors
          /\ aggregator'.state.receivedShares = aggregator.state.receivedShares
          /\ aggregator'.state.recoveredSecrets = aggregator.state.recoveredSecrets]_vars

\* An unknown or unparsable message was handled in a started round with a
\* recorded vector, while the other connection was open
C14_Witness ==
    /\ history.last.type \in {"unknown", "unparsable"}
    /\ Started
    /\ aggregator.state.maskedVectors # <<>>
    /\ \A ws \in Conns : sockets[ws] = "open"
    /\ \E ws \in Conns : sent[ws] # <<>> /\ sent[ws][Len(sent[ws])].type = "error"

\* C18 (maxClients): the number of admitted clients never exceeds
\* protocolConfig.maxClients.
C18_MaxClients ==
    Cardinality(aggregator.state.clients) <= aggregator.config.protocolConfig.maxClients

\* C19 (participantCount): in every aggregation result published for a
\* round, participantCount is the number of masked vectors summed into the
\* result.
C19_ParticipantCount ==
    \A i \in DOMAIN history.published :
        history.published[i].roundId # "" =>
            history.published[i].participantCount
                = Cardinality(history.published[i].summed)

\* C5 (at most one result per round): for every round id, the aggregator
\* broadcasts the aggregation_result message at most once.
C5_AtMostOneResult ==
    \A i, j \in DOMAIN history.published :
        (/\ history.published[i].roundId # ""
         /\ history.published[i].roundId = history.published[j].roundId) => i = j

\* C24 (aggregation only when all admitted submitted): in every result the
\* aggregator published for a round, each client admitted at that time had
\* a recorded masked vector.
C24_AllAdmittedSubmitted ==
    \A i \in DOMAIN history.published :
        history.published[i].roundId # "" =>
            history.published[i].admitted \subseteq history.published[i].summed

\* Every admitted client of the started round has a recorded masked vector
AllAdmittedRecorded ==
    /\ Started
    /\ aggregator.state.clients # {}
    /\ aggregator.state.clients \subseteq MapKeys(aggregator.state.maskedVectors)

\* C25 (aggregation once complete): the step that makes every admitted
\* client have a recorded masked vector, a submission or a disconnect, is a
\* step in which the aggregator performs the aggregation.
C25_AggregationOnceComplete ==
    [][(~AllAdmittedRecorded /\ AllAdmittedRecorded')
          => (received' = received + 1 /\ history'.last.aggregated)]_vars

\* C26 (aggregate of the admitted clients' vectors): every vector summed in
\* a result published for a round was recorded for a client admitted at that
\* time.
C26_SumOfAdmittedVectors ==
    \A i \in DOMAIN history.published :
        history.published[i].roundId # "" =>
            history.published[i].summed \subseteq history.published[i].admitted

\* The round_started messages sent to ws
RoundStartedSent(snt, ws) ==
    LET isRoundStarted(m) == m.type = "round_started"
    IN  Len(SelectSeq(snt[ws], isRoundStarted))

\* C27 (round started once): once the round has started, no step sends a
\* round_started message again.
C27_RoundStartedOnce ==
    [][Started => \A ws \in Conns :
                     RoundStartedSent(sent', ws) = RoundStartedSent(sent, ws)]_vars

\* C28 (shares and vectors kept until publication, then discarded): a step
\* of the started round that publishes no result keeps every received share
\* list and recorded vector, and a step that publishes a result leaves no
\* received share and no recorded vector.
C28_RetainedUntilPublished ==
    [][Started =>
         IF history'.published # history.published
         THEN /\ aggregator'.state.receivedShares = <<>>
              /\ aggregator'.state.maskedVectors = <<>>
         ELSE /\ MapKeys(aggregator.state.receivedShares)
                    \subseteq MapKeys(aggregator'.state.receivedShares)
              /\ MapKeys(aggregator.state.maskedVectors)
                    \subseteq MapKeys(aggregator'.state.maskedVectors)]_vars

\* The share carries the label splitSecret writes on its i-th share
ProducedBySplitSecret(share) ==
    share.clientId = "share_" \o ToString(share.shareIndex)

\* The shares splitSecret produced that the admitted clients other than d
\* relayed to the aggregator, as (sender, position) pairs
RelayedShares(d) ==
    LET receivedShares == aggregator.state.receivedShares
    IN  UNION {{<<i, j>> : j \in {k \in DOMAIN receivedShares[i].value :
                                   ProducedBySplitSecret(receivedShares[i].value[k])}} :
                  i \in {k \in DOMAIN receivedShares :
                            receivedShares[k].key \in aggregator.state.clients \ {d}}}

\* The threshold the relayed shares carry is reached
ThresholdRelayed(d) ==
    \E p \in RelayedShares(d) :
        Cardinality(RelayedShares(d))
            >= aggregator.state.receivedShares[p[1]].value[p[2]].threshold

\* C29 (recovery finds the dropped client's shares): when an admitted client
\* d of the started round disconnects and the other clients have relayed at
\* least threshold shares produced by splitSecret, the disconnect records a
\* recovered secret for d.
C29_RecoveryFindsShares ==
    [][\A d \in ClientIds :
          (/\ Started
           /\ d \in aggregator.state.clients
           /\ d \notin aggregator'.state.clients
           /\ ThresholdRelayed(d))
             => MapHas(aggregator'.state.recoveredSecrets, d)]_vars

\* C37 (every admitted client has a live connection): each id in
\* state.clients is registered, in the clients map, to a connection that is
\* open.
C37_AdmittedClientsConnected ==
    \A clientId \in aggregator.state.clients :
        /\ MapHas(aggregator.clients, clientId)
        /\ sockets[MapGet(aggregator.clients, clientId)] = "open"

\* A vector a peer can write by hand with two elements where the round's
\* vectorSize is 1: {"buffer": [7, 7], "length": 2, "0": 7, "1": 7}
LongVector ==
    [typed |-> FALSE, hasBuffer |-> TRUE, buffer |-> <<7, 7>>, length |-> 2,
     elems |-> <<7, 7>>]

\* submit_vector messages whose vectors have a buffer, of either length
SizedVectorReceived ==
    \E clientId \in ClientIds :
        \E vector \in {CraftedVector, LongVector} :
            handleSubmitVector(clientId, vector)

\* The aggregator given joins, disconnects and such submissions only
NextSized ==
    \/ \E ws \in Conns : Connection(ws)
    \/ JoinRoundReceived
    \/ SizedVectorReceived
    \/ \E ws \in Conns : handleClientDisconnect(ws)

SpecSized == Init /\ [][NextSized]_vars

\* C33 (vectors of the wrong length are rejected): every vector recorded in
\* maskedVectors of a started round has vectorSize elements, and no
\* aggregation has failed.
C33_WrongLengthRejected ==
    Started =>
    /\ \A i \in DOMAIN aggregator.state.maskedVectors :
          Len(aggregator.state.maskedVectors[i].value.vector.elems)
              = aggregator.config.protocolConfig.vectorSize
    /\ \A ws \in Conns : \A i \in DOMAIN sent[ws] :
          sent[ws][i].errorCode # "AGGREGATION_FAILED"

(***************************************************************************)
(* client.ts: SecureAggregationClient, and distributeShares of secrets.ts  *)
(***************************************************************************)

\* Bounds of the client specification: calls of joinRound, submitVector and
\* leaveRound made, sockets created (by connect and by the reconnect timer)
MaxCalls == 3
MaxWebSockets == 2

\* The client under study and the vector it submits
ClientId == "A"

\* The values randomBytes returns to distributeShares (the secret) and to
\* generatePolynomial (a coefficient)
RandomSecretSamples == {<<1>>, <<255>>}
RandomCoefficientSamples == {<<0>>, <<1>>}

\* The peer lists a round-start notification carries (all admitted ids)
PeerLists == {<<"A", "B">>}

\* The client configurations: dropoutTolerance, reconnectAttempts
ClientConfigSamples ==
    {[clientId |-> ClientId, reconnectAttempts |-> 1,
      protocolConfig |-> [dropoutTolerance |-> k]] : k \in {0, 1}}

\* createInitialState()
createInitialClientState(config) ==
    [clientId |-> config.clientId, phase |-> "setup", roundId |-> "",
     peers |-> <<>>, sharedSecrets |-> <<>>, maskSeeds |-> <<>>,
     submitted |-> FALSE]

\* A message the client sends
ClientMessage(type, clientId, roundId, vector, shares) ==
    [type |-> type, clientId |-> clientId, roundId |-> roundId,
     vector |-> vector, shares |-> shares]

\* sendMessage(message) throws unless ws is set and open
CanSend == client.ws # 0 /\ webSockets[client.ws] = "OPEN"

\* The peers of the list other than clientId, in order
OtherClients(clientId, clients) ==
    LET other(c) == c # clientId IN SelectSeq(clients, other)

\* distributeShares(clientId, clients, dropoutTolerance): `rnd` gives, for
\* every other client, the secret and the polynomial coefficients drawn.
\* The result is [threw, distributions]: distributions[i] is the list of
\* shares for clients[i], one share of every secret.
distributeShares(clientId, clients, dropoutTolerance, rnd) ==
    LET others == OtherClients(clientId, clients)
        diff == Len(clients) - dropoutTolerance
        threshold == IF diff > 1 THEN diff ELSE 1
        split(o) == splitSecret(rnd[o].secret, Len(clients), threshold, rnd[o].coefficients)
    IN  IF others # <<>> /\ threshold < 2
        THEN [threw |-> TRUE, distributions |-> <<>>]
        ELSE [threw |-> FALSE,
              distributions |->
                 IF others = <<>> THEN <<>>
                 ELSE [i \in 1..Len(clients) |->
                          [o \in 1..Len(others) |-> split(o).shares[i]]]]

\* The random draws of one distributeShares call
RandomDraws(clientId, clients, dropoutTolerance) ==
    LET others == OtherClients(clientId, clients)
        diff == Len(clients) - dropoutTolerance
        degree == IF diff > 1 THEN diff - 1 ELSE 0
    IN  [1..Len(others) ->
            [secret : RandomSecretSamples,
             coefficients : SeqsOfLen(RandomCoefficientSamples, degree)]]

(***************************************************************************)
(* The client specification (SpecClient): the caller's public calls, the   *)
(* events of the client's sockets and the round-start notification.        *)
(***************************************************************************)

ClientInit ==
    /\ \E config \in ClientConfigSamples :
         client = [config |-> config, state |-> createInitialClientState(config),
                   ws |-> 0, reconnectAttempts |-> 0]
    /\ webSockets = <<>>
    /\ timers = 0
    /\ outbox = <<>>
    /\ pending = <<>>
    /\ calls = [count |-> 0, lastStep |-> "", prevStep |-> "", lastError |-> "",
                succeeded |-> FALSE]

\* The record of a step: op is the public call that ran, "event" for a
\* socket event, a timer or a notification
Step(op, isCall, error, succeeded) ==
    [count |-> IF isCall THEN calls.count + 1 ELSE calls.count,
     lastStep |-> op, prevStep |-> calls.lastStep, lastError |-> error,
     succeeded |-> succeeded]

CanCall == calls.count < MaxCalls

\* new WebSocket(url) in connect(): this.ws is replaced
NewWebSocket ==
    /\ webSockets' = Append(webSockets, "CONNECTING")
    /\ client' = [client EXCEPT !.ws = Len(webSockets) + 1]

\* connect(), called by the caller
connect ==
    /\ Len(webSockets) < MaxWebSockets
    /\ NewWebSocket
    /\ calls' = Step("connect", FALSE, "", calls.succeeded)
    /\ UNCHANGED <<timers, outbox, pending, pureVars, aggVars>>

\* ws.on('open')
onOpen(w) ==
    /\ w \in DOMAIN webSockets
    /\ webSockets[w] = "CONNECTING"
    /\ webSockets' = [webSockets EXCEPT ![w] = "OPEN"]
    /\ client' = [client EXCEPT !.reconnectAttempts = 0]
    /\ calls' = Step("event", FALSE, "", calls.succeeded)
    /\ UNCHANGED <<timers, outbox, pending, pureVars, aggVars>>

\* ws.on('close'), of any socket the client created: attemptReconnect()
onClose(w) ==
    /\ w \in DOMAIN webSockets
    /\ webSockets[w] # "CLOSED"
    /\ webSockets' = [webSockets EXCEPT ![w] = "CLOSED"]
    /\ IF client.reconnectAttempts >= client.config.reconnectAttempts
       THEN UNCHANGED <<client, timers>>
       ELSE /\ client' = [client EXCEPT !.reconnectAttempts = @ + 1]
            /\ timers' = timers + 1
    /\ calls' = Step("event", FALSE, "", calls.succeeded)
    /\ UNCHANGED <<outbox, pending, pureVars, aggVars>>

\* The setTimeout callback of attemptReconnect: connect()
reconnectTimeout ==
    /\ timers > 0
    /\ Len(webSockets) < MaxWebSockets
    /\ timers' = timers - 1
    /\ NewWebSocket
    /\ calls' = Step("event", FALSE, "", calls.succeeded)
    /\ UNCHANGED <<outbox, pending, pureVars, aggVars>>

\* The message types the aggregator sends
ServerMessageTypes == {"round_started"}

\* ws.on('message') of an open socket: handleMessage(message). The map
\* messageHandlers is empty (setupMessageHandlers registers nothing), so no
\* handler runs: the message is logged and dropped.
onMessage(w, type) ==
    /\ w \in DOMAIN webSockets
    /\ webSockets[w] = "OPEN"
    /\ calls' = Step("message", FALSE, "", calls.succeeded)
    /\ UNCHANGED <<client, webSockets, timers, outbox, pending, pureVars, aggVars>>

\* joinRound(roundId)
joinRound(roundId) ==
    /\ CanCall
    /\ client' = [client EXCEPT !.state.roundId = roundId,
                                !.state.phase = "key_exchange",
                                !.state.submitted = FALSE]
    /\ IF CanSend
       THEN /\ outbox' = Append(outbox,
                  ClientMessage("join_round", client.config.clientId, roundId, <<>>, <<>>))
            /\ calls' = Step("joinRound", TRUE, "", FALSE)
       ELSE /\ UNCHANGED outbox
            /\ calls' = Step("joinRound", TRUE, "WebSocket not connected", FALSE)
    /\ UNCHANGED <<webSockets, timers, pending, pureVars, aggVars>>

\* The round-start notification with the admitted peers: the client derives
\* a shared secret with every other peer and may submit from then on
onRoundStarted(peers) ==
    /\ client.state.phase = "key_exchange"
    /\ client.ws # 0 /\ webSockets[client.ws] = "OPEN"
    /\ client' = [client EXCEPT
                    !.state.peers = peers,
                    !.state.sharedSecrets =
                        LET others == OtherClients(client.state.clientId, peers)
                        IN  [i \in 1..Len(others) |->
                                [key |-> others[i],
                                 value |-> SharedSecret(client.state.clientId, others[i])]],
                    !.state.phase = "submission"]
    /\ calls' = Step("event", FALSE, "", calls.succeeded)
    /\ UNCHANGED <<webSockets, timers, outbox, pending, pureVars, aggVars>>

\* submitVector(vector) up to `await generateAllMasks(...)`: the two guards,
\* then the call is suspended with the arguments of generateAllMasks
submitVectorCalled(vector) ==
    /\ CanCall
    /\ IF client.state.phase # "submission"
       THEN /\ calls' = Step("submitVector", TRUE, "Not in submission phase",
                             calls.succeeded)
            /\ UNCHANGED pending
       ELSE IF client.state.submitted
       THEN /\ calls' = Step("submitVector", TRUE,
                             "Vector already submitted for this round", calls.succeeded)
            /\ UNCHANGED pending
       ELSE /\ calls' = Step("submitVector", TRUE, "", calls.succeeded)
            /\ pending' = Append(pending,
                  [vector |-> vector, sharedSecrets |-> client.state.sharedSecrets,
                   roundId |-> client.state.roundId, clientId |-> client.state.clientId])
    /\ UNCHANGED <<client, webSockets, timers, outbox, pureVars, aggVars>>

\* The share messages of submitVector: one per client with a share list
ShareMessages(distributions) ==
    [i \in 1..Len(distributions) |->
        ClientMessage("secret_share", client.state.clientId, client.state.roundId,
                      <<>>, distributions[i])]

\* A mutant of submitVector: the round is marked submitted before the
\* messages are sent
submitVectorResumedMarksFirst(p) ==
    /\ p \in DOMAIN pending
    /\ pending' = [i \in 1..(Len(pending) - 1) |->
                      IF i < p THEN pending[i] ELSE pending[i + 1]]
    /\ \E rnd \in RandomDraws(client.state.clientId, client.state.peers,
                              client.config.protocolConfig.dropoutTolerance) :
         LET call == pending[p]
             sharedSecrets == [k \in MapKeys(call.sharedSecrets) |->
                                  MapGet(call.sharedSecrets, k)]
             masks == generateAllMasks(call.vector, sharedSecrets,
                         call.roundId,
                         call.clientId)
             maskedVector == applyAllMasks(call.vector, masks)
             shareDistributions ==
                 distributeShares(client.state.clientId, client.state.peers,
                                  client.config.protocolConfig.dropoutTolerance, rnd)
             submitMessage ==
                 ClientMessage("submit_vector", client.state.clientId,
                               client.state.roundId, maskedVector, <<>>)
         IN  IF shareDistributions.threw
             THEN /\ calls' = Step("submitVectorResumed", FALSE,
                                   "Threshold must be at least 2", calls.succeeded)
                  /\ UNCHANGED <<client, outbox>>
             ELSE IF ~CanSend
             THEN /\ calls' = Step("submitVectorResumed", FALSE,
                                   "WebSocket not connected", calls.succeeded)
                  /\ client' = [client EXCEPT !.state.submitted = TRUE,
                                              !.state.phase = "aggregation"]
                  /\ UNCHANGED outbox
             ELSE /\ outbox' = outbox \o ShareMessages(shareDistributions.distributions)
                                      \o <<submitMessage>>
                  /\ client' = [client EXCEPT !.state.submitted = TRUE,
                                              !.state.phase = "aggregation"]
                  /\ calls' = Step("submitVectorResumed", FALSE, "", TRUE)
    /\ UNCHANGED <<webSockets, timers, pureVars, aggVars>>

\* submitVector(vector) after the await: mask, distribute shares, send the
\* share messages and the vector, then mark the round submitted. An error
\* thrown on the way (splitSecret, sendMessage) ends the call there.
submitVectorResumed(p) ==
    /\ p \in DOMAIN pending
    /\ pending' = [i \in 1..(Len(pending) - 1) |->
                      IF i < p THEN pending[i] ELSE pending[i + 1]]
    /\ \E rnd \in RandomDraws(client.state.clientId, client.state.peers,
                              client.config.protocolConfig.dropoutTolerance) :
         LET call == pending[p]
             sharedSecrets == [k \in MapKeys(call.sharedSecrets) |->
                                  MapGet(call.sharedSecrets, k)]
             masks == generateAllMasks(call.vector, sharedSecrets,
                         call.roundId,
                         call.clientId)
             maskedVector == applyAllMasks(call.vector, masks)
             shareDistributions ==
                 distributeShares(client.state.clientId, client.state.peers,
                                  client.config.protocolConfig.dropoutTolerance, rnd)
             submitMessage ==
                 ClientMessage("submit_vector", client.state.clientId,
                               client.state.roundId, maskedVector, <<>>)
         IN  IF shareDistributions.threw
             THEN /\ calls' = Step("submitVectorResumed", FALSE,
                                   "Threshold must be at least 2", calls.succeeded)
                  /\ UNCHANGED <<client, outbox>>
             ELSE IF ~CanSend
             THEN /\ calls' = Step("submitVectorResumed", FALSE,
                                   "WebSocket not connected", calls.succeeded)
                  /\ UNCHANGED <<client, outbox>>
             ELSE /\ outbox' = outbox \o ShareMessages(shareDistributions.distributions)
                                      \o <<submitMessage>>
                  /\ client' = [client EXCEPT !.state.submitted = TRUE,
                                              !.state.phase = "aggregation"]
                  /\ calls' = Step("submitVectorResumed", FALSE, "", TRUE)
    /\ UNCHANGED <<webSockets, timers, pureVars, aggVars>>

\* getState() of a client object: { ...this.state }, a shallow copy. The
\* fields of the copy are the values of the state's fields; sharedSecrets
\* and maskSeeds are the Map objects of the state themselves.
getState(c) == c.state

\* The entry a caller writes into the map it was given
CallerEntry == [key |-> "C", value |-> 2]

\* The caller calls getState() and sets an entry of the sharedSecrets map of
\* the returned object: that map is this.state.sharedSecrets
getStateThenSet ==
    /\ CanCall
    /\ client' = [client EXCEPT !.state.sharedSecrets =
                     MapSet(@, CallerEntry.key, CallerEntry.value)]
    /\ calls' = Step("getState", TRUE, "", calls.succeeded)
    /\ UNCHANGED <<webSockets, timers, outbox, pending, pureVars, aggVars>>

\* A mutant of leaveRound: the `if (this.ws)` test is gone, close() is
\* called on null and throws before the state is reset
leaveRoundUnguarded ==
    /\ CanCall
    /\ IF client.ws # 0
       THEN /\ webSockets' = [webSockets EXCEPT ![client.ws] =
                                 IF @ = "CLOSED" THEN "CLOSED" ELSE "CLOSING"]
            /\ client' = [client EXCEPT
                            !.ws = 0,
                            !.state = createInitialClientState(client.config)]
            /\ calls' = Step("leaveRound", TRUE, "", FALSE)
       ELSE /\ UNCHANGED <<webSockets, client>>
            /\ calls' = Step("leaveRound", TRUE, "TypeError", FALSE)
    /\ UNCHANGED <<timers, outbox, pending, pureVars, aggVars>>

\* leaveRound(): close and drop the socket if there is one, reset the state
leaveRound ==
    /\ CanCall
    /\ IF client.ws # 0
       THEN webSockets' = [webSockets EXCEPT ![client.ws] =
                              IF @ = "CLOSED" THEN "CLOSED" ELSE "CLOSING"]
       ELSE UNCHANGED webSockets
    /\ client' = [client EXCEPT
                    !.ws = 0,
                    !.state = createInitialClientState(client.config)]
    /\ calls' = Step("leaveRound", TRUE, "", FALSE)
    /\ UNCHANGED <<timers, outbox, pending, pureVars, aggVars>>

ClientNext ==
    \/ connect
    \/ \E w \in 1..MaxWebSockets : onOpen(w)
    \/ \E w \in 1..MaxWebSockets : onClose(w)
    \/ reconnectTimeout
    \/ \E w \in 1..MaxWebSockets, type \in ServerMessageTypes : onMessage(w, type)
    \/ \E roundId \in RoundIds : joinRound(roundId)
    \/ \E peers \in PeerLists : onRoundStarted(peers)
    \/ submitVectorCalled(PrivateVector[ClientId])
    \/ \E p \in 1..MaxCalls : submitVectorResumed(p)
    \/ leaveRound
    \/ getStateThenSet

\* The client alone
InitClient == ClientInit /\ ShamirIdle /\ MaskIdle /\ TrackerIdle /\ RngIdle /\ VoprfIdle /\ AggIdle
                  /\ DistributionIdle /\ BatchIdle

SpecClient == InitClient /\ [][ClientNext]_vars

LostAtCap ==
    /\ \E w \in DOMAIN webSockets :
          webSockets[w] = "OPEN" /\ webSockets'[w] = "CLOSED"
    /\ client.reconnectAttempts >= client.config.reconnectAttempts

\* C15 (bounded reconnect): the reconnection attempts made without an
\* intervening open never exceed config.reconnectAttempts; a connection loss
\* at the cap schedules no further attempt and surfaces a connection error
\* to the caller.
C15_BoundedReconnect ==
    [][/\ client'.reconnectAttempts <= client'.config.reconnectAttempts
       /\ LostAtCap => (timers' = timers /\ calls'.lastError # "")]_vars

\* A suspended submitVector call resumed in this step and, having built its
\* shares, found the connection not open
ResumedNotConnected ==
    /\ Len(pending') < Len(pending)
    /\ ~CanSend
    /\ calls'.lastError # "Threshold must be at least 2"

WithoutSecrets(c) == [c EXCEPT !.state.sharedSecrets = <<>>]

\* C17 (secrets never exposed): what getState returns is the same for two
\* clients that differ only in their shared secrets, and a caller cannot
\* change the internal secrets map through the value getState returned.
C17_SecretsNotExposed ==
    [][/\ getState(client') = getState(WithoutSecrets(client'))
       /\ calls'.lastStep = "getState" =>
             client'.state.sharedSecrets = client.state.sharedSecrets]_vars

\* C10 (idempotent leave): a leaveRound call that directly follows a
\* leaveRound call completes without error and changes nothing: the state
\* (phase, round id, peers, secrets, submitted flag), the connection, the
\* sockets, the timers and the messages sent are what the first call left.
C10_IdempotentLeave ==
    [][(/\ calls.lastStep = "leaveRound"
        /\ calls'.count = calls.count + 1
        /\ calls'.lastStep = "leaveRound")
          => /\ client' = client
             /\ webSockets' = webSockets
             /\ timers' = timers
             /\ outbox' = outbox
             /\ pending' = pending
             /\ calls'.lastError = calls.lastError]_vars

\* Two leaveRound calls in a row, the first on a client that had joined a
\* round over an open connection
C10_Witness ==
    /\ calls.lastStep = "leaveRound"
    /\ calls.prevStep = "leaveRound"
    /\ \E w \in DOMAIN webSockets : webSockets[w] = "CLOSING"
    /\ \E i \in DOMAIN outbox : outbox[i].type = "join_round"

\* C32 (a joined client can reach submission): when the round-start message
\* reaches a client that joined a round, the client's phase advances to
\* submission and it holds a shared secret for its peers, so that
\* submitVector is accepted.
C32_JoinedClientReachesSubmission ==
    [][(calls'.lastStep = "message" /\ client.state.phase = "key_exchange")
          => /\ client'.state.phase = "submission"
             /\ client'.state.sharedSecrets # <<>>]_vars

\* The submit_vector messages among the messages sent
SubmitVectorMessages(box) ==
    LET isSubmit(m) == m.type = "submit_vector" IN SelectSeq(box, isSubmit)

\* A suspended submitVector call resumed in this step
Resumed == Len(pending') < Len(pending)

ResumedCalls ==
    {p \in DOMAIN pending :
        pending' = [i \in 1..(Len(pending) - 1) |->
                       IF i < p THEN pending[i] ELSE pending[i + 1]]}

C36_LeavingIsFinal ==
    [][(client.ws = 0 /\ calls'.lastStep # "connect")
          => (client'.ws = 0 /\ timers' <= timers)]_vars

\* C38 (failed join changes nothing): a joinRound call that fails with
\* 'WebSocket not connected' leaves round id, phase and submitted flag as
\* they were before the call.
C38_FailedJoinChangesNothing ==
    [][(/\ calls'.count = calls.count + 1
        /\ calls'.lastStep = "joinRound"
        /\ calls'.lastError = "WebSocket not connected")
          => /\ client'.state.roundId = client.state.roundId
             /\ client'.state.phase = client.state.phase
             /\ client'.state.submitted = client.state.submitted]_vars

(***************************************************************************)
(* The masking specification: clients with consistent pairwise secrets     *)
(* mask their private vectors for one round; the masked vectors are then   *)
(* aggregated.                                                             *)
(***************************************************************************)

\* The private vectors clients hold
VectorSamples == {<<0>>, <<3>>, <<1, 2>>, <<4, 0>>}

\* The secret client a shares with client b, from one secret per pair
PairSecret(pairSecrets, a, b) == pairSecrets[{a, b}]

MaskInit ==
    \E cs \in SUBSET ClientIds, v0 \in VectorSamples, roundId \in RoundIds :
        /\ Cardinality(cs) >= 2
        /\ \E vectors \in [cs -> {v \in VectorSamples : Len(v) = Len(v0)}],
              pairSecrets \in [{p \in SUBSET cs : Cardinality(p) = 2} -> SecretSamples] :
              masking = [pc |-> "masking", clients |-> cs, roundId |-> roundId,
                         vectors |-> vectors, pairSecrets |-> pairSecrets,
                         masks |-> [c \in {} |-> <<>>],
                         masked |-> [c \in {} |-> <<>>],
                         aggregated |-> Threw]

\* Client c builds its masked vector: generateAllMasks, then applyAllMasks
MaskVector(c) ==
    /\ masking.pc = "masking"
    /\ c \in masking.clients \ DOMAIN masking.masked
    /\ LET sharedSecrets == [peer \in masking.clients \ {c} |->
                                PairSecret(masking.pairSecrets, c, peer)]
           masks == generateAllMasks(masking.vectors[c], sharedSecrets,
                                     masking.roundId, c)
           maskedVector == applyAllMasks(masking.vectors[c], masks)
       IN  masking' = [masking EXCEPT
                         !.masks = [d \in DOMAIN masking.masks \cup {c} |->
                                      IF d = c THEN masks ELSE masking.masks[d]],
                         !.masked = [d \in DOMAIN masking.masked \cup {c} |->
                                       IF d = c THEN maskedVector
                                       ELSE masking.masked[d]]]
    /\ UNCHANGED <<shamir, tracker, rng, voprf, distribution, batch, aggVars, cliVars>>

\* aggregateVectors over the masked vectors of all clients
AggregateMasked ==
    /\ masking.pc = "masking"
    /\ DOMAIN masking.masked = masking.clients
    /\ masking' = [masking EXCEPT
                     !.pc = "aggregated",
                     !.aggregated = aggregateVectors(
                         [i \in 1..Cardinality(masking.clients) |->
                             Float64Array(masking.masked[SetToSeq(masking.clients)[i]])])]
    /\ UNCHANGED <<shamir, tracker, rng, voprf, distribution, batch, aggVars, cliVars>>

MaskNext == (\E c \in ClientIds : MaskVector(c)) \/ AggregateMasked

\* The masking functions alone
InitMask == MaskInit /\ ShamirIdle /\ TrackerIdle /\ RngIdle /\ VoprfIdle /\ AggIdle /\ ClientIdle
                  /\ DistributionIdle /\ BatchIdle

SpecMask == InitMask /\ [][MaskNext]_vars

\* The element-wise sum of the private vectors of the masking round
PrivateSum ==
    VectorSum([i \in 1..Cardinality(masking.clients) |->
                  masking.vectors[SetToSeq(masking.clients)[i]]])

\* C1 (mask cancellation): with consistent pairwise secrets and private
\* vectors of equal length, the aggregate of the vectors every client masked
\* with generateAllMasks and applyAllMasks is the sum of the private vectors.
C1_MaskCancellation ==
    masking.pc = "aggregated" => masking.aggregated = Returned(PrivateSum)

\* C30 (pairwise mask symmetric): for two clients that built their masks
\* with the same shared secret, round id and vector length, the mask a
\* derived for peer b equals the mask b derived for peer a.
C30_PairwiseMaskSymmetric ==
    \A a, b \in DOMAIN masking.masks :
        a # b => masking.masks[a][b] = masking.masks[b][a]

(***************************************************************************)
(* The secret-sharing specification: draw (secret, n, t), split, then      *)
(* reconstruct from a list of distinct shares in any order.                *)
(***************************************************************************)


ShamirInit ==
    \E len \in 0..MaxSecretLen :
    \E secret \in Bytes(len), n \in 1..MaxShares, t \in 0..(MaxShares + 1) :
        shamir = [pc |-> "start", secret |-> secret, totalShares |-> n,
                  threshold |-> t, rnd |-> <<>>,
                  out |-> [error |-> "", shares |-> <<>>],
                  pick |-> <<>>, result |-> NullSecret]

\* A call splitSecret(secret, totalShares, threshold)
SplitSecretCall ==
    /\ shamir.pc = "start"
    /\ \E rnd \in SeqsOfLen(Bytes(Len(shamir.secret)),
                            IF 2 <= shamir.threshold /\ shamir.threshold <= shamir.totalShares
                            THEN shamir.threshold - 1 ELSE 0) :
         shamir' = [shamir EXCEPT
                      !.pc = "split",
                      !.rnd = rnd,
                      !.out = splitSecret(shamir.secret, shamir.totalShares,
                                          shamir.threshold, rnd)]
    /\ UNCHANGED <<masking, tracker, rng, voprf, distribution, batch, aggVars, cliVars>>

\* A call reconstructSecret(list), list being distinct shares of the split
ReconstructSecretCall ==
    /\ shamir.pc = "split"
    /\ shamir.out.error = ""
    /\ \E pick \in DistinctSeqs(DOMAIN shamir.out.shares, Len(shamir.out.shares)) :
         shamir' = [shamir EXCEPT
                      !.pc = "reconstructed",
                      !.pick = pick,
                      !.result = reconstructSecret(
                                    [p \in 1..Len(pick) |-> shamir.out.shares[pick[p]]])]
    /\ UNCHANGED <<masking, tracker, rng, voprf, distribution, batch, aggVars, cliVars>>

ShamirNext == SplitSecretCall \/ ReconstructSecretCall

\* The secret-sharing functions alone
InitShamir == ShamirInit /\ MaskIdle /\ TrackerIdle /\ RngIdle /\ VoprfIdle /\ AggIdle /\ ClientIdle
                  /\ DistributionIdle /\ BatchIdle

SpecShamir == InitShamir /\ [][ShamirNext]_vars

\* The shares handed to the reconstructSecret call
PickedShares == [p \in 1..Len(shamir.pick) |-> shamir.out.shares[shamir.pick[p]]]

\* C2 (threshold correctness): reconstructSecret applied to any t of the
\* shares of splitSecret(secret, n, t) returns exactly the secret.
C2_ThresholdCorrectness ==
    (shamir.pc = "reconstructed" /\ Len(shamir.pick) = shamir.threshold)
        => shamir.result = [isNull |-> FALSE, bytes |-> shamir.secret]

\* C7 (below-threshold reconstruction fails): reconstructSecret applied to
\* fewer than t shares of one split (the empty list included) returns null,
\* t being the threshold every share carries.
C7_BelowThresholdIsNull ==
    (shamir.pc = "reconstructed" /\ Len(shamir.pick) < shamir.threshold)
        => /\ shamir.result = NullSecret
           /\ \A p \in DOMAIN PickedShares :
                 PickedShares[p].threshold = shamir.threshold

C7_Witness ==
    /\ shamir.pc = "reconstructed"
    /\ shamir.threshold = 3
    /\ Len(shamir.pick) = 2
    /\ shamir.result = NullSecret

\* C8 (share-count invariance): every list of t or more distinct shares of
\* one split, in any order, reconstructs to the value the first t shares
\* of the split reconstruct to.
C8_ShareCountInvariance ==
    (shamir.pc = "reconstructed" /\ Len(shamir.pick) >= shamir.threshold)
        => shamir.result =
              reconstructSecret(SubSeq(shamir.out.shares, 1, shamir.threshold))

\* C9 (split parameters): splitSecret throws and returns no share when
\* t < 2 or t > n; otherwise it returns n shares with indices 1..n, each
\* with threshold t and share data of the secret's length.
C9_SplitParameters ==
    (shamir.pc # "start") =>
        IF shamir.threshold < 2 \/ shamir.threshold > shamir.totalShares
        THEN shamir.out.error # "" /\ shamir.out.shares = <<>>
        ELSE /\ shamir.out.error = ""
             /\ Len(shamir.out.shares) = shamir.totalShares
             /\ \A i \in 1..shamir.totalShares :
                   /\ shamir.out.shares[i].shareIndex = i
                   /\ shamir.out.shares[i].threshold = shamir.threshold
                   /\ shamir.out.shares[i].shareData.length = Len(shamir.secret)
                   /\ Len(shamir.out.shares[i].shareData.elems) = Len(shamir.secret)

C9_Witness ==
    /\ shamir.pc = "split"
    /\ shamir.out.error = ""
    /\ shamir.threshold = 2
    /\ Len(shamir.out.shares) = 3
    /\ Len(shamir.secret) = MaxSecretLen

(***************************************************************************)
(* dp/budget.ts: BudgetTracker                                             *)
(*                                                                         *)
(* Budgets are numbers of a fixed unit (integers here): the tracker only   *)
(* compares, adds and subtracts them, and the IEEE difference a - b of     *)
(* a >= b is >= 0 as the integer one is. An optional number (delta?) is a  *)
(* sequence of no or one number.                                           *)
(***************************************************************************)

\* Bound: the number of spend calls of a run
MaxSpends == 3

undefined == <<>>

\* x ?? d
OrElse(x, d) == IF x = undefined THEN d ELSE x[1]

\* Infinity, as the remaining delta of a budget without delta: above every
\* delta of the model
Infinity == 1000

\* DPBudget values: the total budgets and the budgets spent
DPBudget(epsilon, delta) == [epsilon |-> epsilon, delta |-> delta]
TotalBudgetSamples ==
    {DPBudget(e, d) : e \in {0, 1, 3}, d \in {undefined, <<0>>, <<2>>}}
BudgetSamples ==
    {DPBudget(e, d) : e \in {-1, 0, 1, 2, 4}, d \in {undefined, <<0>>, <<1>>, <<3>>}}

\* A mutant of canSpend: `||` in place of `&&`
canSpendEither(remainingBudget, budget) ==
    \/ remainingBudget.epsilon >= budget.epsilon
    \/ OrElse(remainingBudget.delta, Infinity) >= OrElse(budget.delta, 0)

\* canSpend(budget)
canSpend(remainingBudget, budget) ==
    LET remainingEpsilon == remainingBudget.epsilon
        remainingDelta == OrElse(remainingBudget.delta, Infinity)
        requiredEpsilon == budget.epsilon
        requiredDelta == OrElse(budget.delta, 0)
    IN  remainingEpsilon >= requiredEpsilon /\ remainingDelta >= requiredDelta

\* new BudgetTracker(totalBudget)
TrackerInit ==
    \E totalBudget \in TotalBudgetSamples :
        tracker = [remainingBudget |-> totalBudget,
                   spentBudget |-> DPBudget(0, <<0>>),
                   total |-> totalBudget,
                   sum |-> DPBudget(0, <<0>>),
                   spends |-> 0,
                   nonNegative |-> TRUE,
                   last |-> [budget |-> DPBudget(0, undefined), error |-> "",
                             remainingBudget |-> totalBudget,
                             spentBudget |-> DPBudget(0, <<0>>)]]

\* spend(budget). last records the call: its argument, the error thrown and
\* the budgets before it; total is the budget the tracker was created with
\* and sum the component-wise sum of the budgets spent with success (an
\* absent delta counting 0)
spend(budget) ==
    /\ tracker.spends < MaxSpends
    /\ LET called == [tracker EXCEPT
                        !.spends = @ + 1,
                        !.nonNegative = @ /\ budget.epsilon >= 0
                                          /\ OrElse(budget.delta, 0) >= 0,
                        !.last = [budget |-> budget, error |-> "",
                                  remainingBudget |-> tracker.remainingBudget,
                                  spentBudget |-> tracker.spentBudget]]
       IN  IF ~canSpend(tracker.remainingBudget, budget)
           THEN tracker' = [called EXCEPT !.last.error = "Insufficient privacy budget"]
           ELSE tracker' = [called EXCEPT
                   !.sum = DPBudget(@.epsilon + budget.epsilon,
                                    <<@.delta[1] + OrElse(budget.delta, 0)>>),
                   !.remainingBudget.epsilon = @ - budget.epsilon,
                   !.remainingBudget.delta =
                       IF @ # undefined /\ budget.delta # undefined
                       THEN <<@[1] - budget.delta[1]>> ELSE @,
                   !.spentBudget.epsilon = @ + budget.epsilon,
                   !.spentBudget.delta =
                       IF budget.delta # undefined
                       THEN <<OrElse(@, 0) + budget.delta[1]>> ELSE @]
    /\ UNCHANGED <<shamir, masking, rng, voprf, distribution, batch, aggVars, cliVars>>

\* getRemaining(), getSpent(): copies of the two budgets
getRemaining == tracker.remainingBudget
getSpent == tracker.spentBudget

\* getTotal(): delta is set only when the sum of the deltas is positive
getTotal ==
    LET totalEpsilon == tracker.remainingBudget.epsilon + tracker.spentBudget.epsilon
        totalDelta == OrElse(tracker.remainingBudget.delta, 0)
                         + OrElse(tracker.spentBudget.delta, 0)
    IN  DPBudget(totalEpsilon, IF totalDelta > 0 THEN <<totalDelta>> ELSE undefined)

TrackerNext == \E budget \in BudgetSamples : spend(budget)

\* The budget tracker alone
InitTracker == TrackerInit /\ ShamirIdle /\ MaskIdle /\ AggIdle /\ ClientIdle
                  /\ RngIdle /\ VoprfIdle
                  /\ DistributionIdle /\ BatchIdle

SpecTracker == InitTracker /\ [][TrackerNext]_vars

\* The budget of the last spend call exceeded what remained, in epsilon or
\* in delta
Overspend ==
    /\ tracker.spends > 0
    /\ \/ tracker.last.budget.epsilon > tracker.last.remainingBudget.epsilon
       \/ /\ tracker.last.budget.delta # undefined
          /\ tracker.last.remainingBudget.delta # undefined
          /\ tracker.last.budget.delta[1] > tracker.last.remainingBudget.delta[1]

\* C20 (no overspending): a spend call whose epsilon exceeds the remaining
\* epsilon, or whose delta exceeds the remaining delta, throws 'Insufficient
\* privacy budget' and leaves the remaining and spent budgets unchanged; and
\* after spend calls with non-negative budgets the remaining epsilon is not
\* negative.
C20_NoOverspending ==
    /\ Overspend =>
          /\ tracker.last.error = "Insufficient privacy budget"
          /\ tracker.remainingBudget = tracker.last.remainingBudget
          /\ tracker.spentBudget = tracker.last.spentBudget
    /\ tracker.nonNegative => tracker.remainingBudget.epsilon >= 0

\* A spend call was refused for its epsilon alone, after an earlier call had
\* spent part of the budget
C20_Witness ==
    /\ Overspend
    /\ tracker.last.error = "Insufficient privacy budget"
    /\ tracker.last.budget.delta = undefined
    /\ tracker.spentBudget.epsilon > 0
    /\ tracker.remainingBudget.epsilon > 0
    /\ tracker.nonNegative

\* Two budgets are the same amounts, an absent delta being no delta (0)
SameBudget(a, b) ==
    a.epsilon = b.epsilon /\ OrElse(a.delta, 0) = OrElse(b.delta, 0)

\* C21 (budget accounting is conserved): after any sequence of spend calls
\* with non-negative budgets,
\* getSpent() is the component-wise sum of the budgets spent with success,
\* getRemaining() is the total budget minus that sum, and getTotal() is the
\* total budget the tracker was created with.
C21_BudgetConserved ==
    tracker.nonNegative =>
        /\ SameBudget(getSpent, tracker.sum)
        /\ getRemaining.epsilon = tracker.total.epsilon - tracker.sum.epsilon
        /\ OrElse(getRemaining.delta, 0)
              = OrElse(tracker.total.delta, 0) - tracker.sum.delta[1]
        /\ SameBudget(getTotal, tracker.total)

(***************************************************************************)
(* core-crypto/rng.ts: randomInt                                           *)
(***************************************************************************)

\* Bound: the number of times the rejection loop of a call draws bytes
MaxDraws == 2

\* The values a random byte takes in the model
RandomByteSamples == {0, 1, 128, 255}

\* The (min, max) arguments: ranges of 1, 5, 256 and 257 values, a range
\* that needs 4 random bytes (2^24 + 1 values), and min >= max
RangeSamples ==
    {<<0, 1>>, <<5, 10>>, <<-3, 253>>, <<0, 257>>, <<0, 16777217>>, <<4, 4>>}

\* 0x100 ** n
RECURSIVE Pow256(_)
Pow256(n) == IF n = 0 THEN 1 ELSE 256 * Pow256(n - 1)

\* Math.ceil(Math.log2(range) / 8): the least n with 256^n >= range
RECURSIVE BytesNeededFrom(_, _)
BytesNeededFrom(range, n) ==
    IF n >= 3 \/ Pow256(n) >= range THEN
        IF Pow256(n) >= range THEN n ELSE n + 1
    ELSE BytesNeededFrom(range, n + 1)
BytesNeeded(range) == BytesNeededFrom(range, 0)

\* x << 8 on the 32-bit signed integer x: the low 24 bits of x become bits
\* 8..31 of the result, bit 31 being the sign
ShiftLeft8(x) ==
    LET low24 == x % 16777216
        bit23 == low24 \div 8388608
        low23 == low24 % 8388608
    IN  IF bit23 = 1 THEN (-2147483647 - 1) + low23 * 256 ELSE low23 * 256

\* The accumulator after the bytes of array: result = (result << 8) + array[i]
RECURSIVE Accumulate(_, _)
Accumulate(result, array) ==
    IF array = <<>> THEN result
    ELSE Accumulate(ShiftLeft8(result) + Head(array), Tail(array))

\* result >= maxValid, maxValid = Math.floor(0x100 ** bytesNeeded / range) * range.
\* With 4 bytes (2^24 < range < 2^31) maxValid > 2^32 - range > 2^31, above
\* every value of the accumulator.
AtLeastMaxValid(result, range, bytesNeeded) ==
    IF bytesNeeded <= 3
    THEN result >= (Pow256(bytesNeeded) \div range) * range
    ELSE FALSE

\* a % n of JavaScript: the remainder has the sign of a
Remainder(a, n) ==
    IF a >= 0 THEN a % n ELSE 0 - ((((0 - (a + 1)) % n) + 1) % n)

RngInit ==
    \E range \in RangeSamples :
        rng = [pc |-> "called", min |-> range[1], max |-> range[2], draws |-> 0,
               result |-> 0, out |-> 0]

\* randomInt(min, max) up to the loop: the argument checks
randomIntChecks ==
    /\ rng.pc = "called"
    /\ rng' = [rng EXCEPT !.pc = IF rng.min >= rng.max THEN "threw" ELSE "loop"]
    /\ UNCHANGED <<shamir, masking, tracker, voprf, distribution, batch, aggVars, cliVars>>

\* One iteration of the do-while loop, and the return when it ends
randomIntDraw ==
    /\ rng.pc = "loop"
    /\ rng.draws < MaxDraws
    /\ LET range == rng.max - rng.min
           bytesNeeded == BytesNeeded(range)
       IN  \E array \in SeqsOfLen(RandomByteSamples, bytesNeeded) :
             LET result == Accumulate(0, array)
             IN  rng' = IF AtLeastMaxValid(result, range, bytesNeeded)
                        THEN [rng EXCEPT !.draws = @ + 1, !.result = result]
                        ELSE [rng EXCEPT !.draws = @ + 1, !.result = result,
                                         !.pc = "returned",
                                         !.out = rng.min + Remainder(result, range)]
    /\ UNCHANGED <<shamir, masking, tracker, voprf, distribution, batch, aggVars, cliVars>>

RngNext == randomIntChecks \/ randomIntDraw

\* One randomInt call alone
InitRng == RngInit /\ ShamirIdle /\ MaskIdle /\ TrackerIdle /\ VoprfIdle /\ AggIdle
              /\ ClientIdle
                  /\ DistributionIdle /\ BatchIdle

SpecRng == InitRng /\ [][RngNext]_vars

\* C23 (randomInt range): for integers min < max, the value randomInt
\* returns is an integer r with min <= r < max, whatever the random bytes.
C23_RandomIntInRange ==
    rng.pc = "returned" => (rng.min <= rng.out /\ rng.out < rng.max)

(***************************************************************************)
(* anon-auth/vopr-tokens.ts: redeemToken                                   *)
(***************************************************************************)

\* Bound: the number of redeemToken calls made
MaxRedeems == 3

\* Bound: the last value of Date.now() (the clock starts at 0)
MaxClock == 2

\* serverState.serverKey
ServerKey == <<254>>

\* PBKDF2 is kept as a deterministic function of key and salt that mixes
\* each byte of the salt with the key. With the key above it maps the salt
\* <<2>> to itself and the salt <<3>> to <<7>>.
deriveKey(inputKeyMaterial, salt) ==
    [i \in 1..Len(salt) |-> (salt[i] * salt[i] + inputKeyMaterial[1]) % 256]

\* The tokens the server issued: t1 never expires, t2 expires after time 1
IssuedTokens ==
    << [key |-> "t1", value |-> [tokenId |-> "t1", expiresAt |-> undefined]],
       [key |-> "t2", value |-> [tokenId |-> "t2", expiresAt |-> <<1>>]] >>

\* The tokens of the redemption requests: issued ids and one that was never
\* issued, with a blindedToken that verifies and one that does not
TokenSamples ==
    [tokenId : {"t1", "t2", "t9"}, blindedToken : {<<2>>, <<3>>}]

\* TokenRedemptionResponse
RedemptionResponse(token, success, error) ==
    [tokenId |-> token.tokenId, success |-> success, error |-> error]

\* The state after issueTokens: nothing used, no call made
VoprfInit ==
    voprf = [issuedTokens |-> IssuedTokens, usedTokens |-> {}, now |-> 0,
             suspended |-> <<>>, responses |-> <<>>, count |-> 0]

\* Time passes: Date.now() grows
clockAdvances ==
    /\ voprf.now < MaxClock
    /\ voprf' = [voprf EXCEPT !.now = @ + 1]
    /\ UNCHANGED <<shamir, masking, tracker, rng, distribution, batch, aggVars, cliVars>>

\* redeemToken(request, serverState) up to the await of deriveKey: the three
\* early returns, or the call is suspended
redeemTokenCalled(token) ==
    /\ voprf.count < MaxRedeems
    /\ LET issued == MapHas(voprf.issuedTokens, token.tokenId)
           issuedToken == MapGet(voprf.issuedTokens, token.tokenId)
           error ==
               IF ~issued THEN "Token not found"
               ELSE IF /\ issuedToken.expiresAt # undefined
                       /\ issuedToken.expiresAt[1] # 0
                       /\ issuedToken.expiresAt[1] < voprf.now
                    THEN "Token expired"
               ELSE IF token.tokenId \in voprf.usedTokens
                    THEN "Token already redeemed"
               ELSE ""
       IN  voprf' =
             IF error # ""
             THEN [voprf EXCEPT !.count = @ + 1,
                      !.responses = Append(@, RedemptionResponse(token, FALSE, error))]
             ELSE [voprf EXCEPT !.count = @ + 1, !.suspended = Append(@, token)]
    /\ UNCHANGED <<shamir, masking, tracker, rng, distribution, batch, aggVars, cliVars>>

\* The rest of redeemToken, once deriveKey has resolved: the verification,
\* and on success the token is marked as used
redeemTokenResumed(i) ==
    /\ i \in DOMAIN voprf.suspended
    /\ LET token == voprf.suspended[i]
           serverEvaluation == deriveKey(ServerKey, token.blindedToken)
           isValid == \A index \in DOMAIN serverEvaluation :
                          serverEvaluation[index] = token.blindedToken[index]
           rest == [j \in 1..(Len(voprf.suspended) - 1) |->
                       IF j < i THEN voprf.suspended[j] ELSE voprf.suspended[j + 1]]
       IN  voprf' =
             IF ~isValid
             THEN [voprf EXCEPT !.suspended = rest,
                      !.responses = Append(@, RedemptionResponse(token, FALSE, "Invalid token"))]
             ELSE [voprf EXCEPT !.suspended = rest,
                      !.usedTokens = @ \cup {token.tokenId},
                      !.responses = Append(@, RedemptionResponse(token, TRUE, ""))]
    /\ UNCHANGED <<shamir, masking, tracker, rng, distribution, batch, aggVars, cliVars>>

VoprfNext ==
    \/ clockAdvances
    \/ \E token \in TokenSamples : redeemTokenCalled(token)
    \/ \E i \in 1..MaxRedeems : redeemTokenResumed(i)

\* The redemption server alone
InitVoprf == VoprfInit /\ ShamirIdle /\ MaskIdle /\ TrackerIdle /\ RngIdle /\ AggIdle
                /\ ClientIdle
                  /\ DistributionIdle /\ BatchIdle

SpecVoprf == InitVoprf /\ [][VoprfNext]_vars

\* The responses that redeemed tokenId
Redemptions(tokenId) ==
    {i \in DOMAIN voprf.responses :
        voprf.responses[i].tokenId = tokenId /\ voprf.responses[i].success}

\* C22 (token redeemed at most once): over the redeemToken calls made, at
\* most one returns success = true for a token, every other response for it
\* carries an error string, and only a redeemed token is in usedTokens.
C22_RedeemedAtMostOnce ==
    /\ \A token \in TokenSamples : Cardinality(Redemptions(token.tokenId)) <= 1
    /\ \A i \in DOMAIN voprf.responses :
          voprf.responses[i].success \/ voprf.responses[i].error # ""
    /\ \A tokenId \in voprf.usedTokens : Redemptions(tokenId) # {}

(***************************************************************************)
(* secrets.ts: distributeShares, as submitVector calls it                  *)
(***************************************************************************)

\* The arguments of the call: this.state.clientId and this.state.peers, the
\* ids of the round's participants
ParticipantLists == {<<"A", "B">>, <<"A", "B", "C">>}
DistributingClients == {"A", "B"}
DropoutToleranceSamples == {0, 1}

DistributionInit ==
    \E clientId \in DistributingClients, clients \in ParticipantLists,
       dropoutTolerance \in DropoutToleranceSamples :
        distribution = [pc |-> "called", clientId |-> clientId, clients |-> clients,
                        dropoutTolerance |-> dropoutTolerance, secrets |-> <<>>,
                        distributions |-> <<>>]

\* distributeShares(clientId, clients, dropoutTolerance) runs: secrets are
\* the values randomBytes(32) returned to it
distributeSharesCall ==
    /\ distribution.pc = "called"
    /\ \E rnd \in RandomDraws(distribution.clientId, distribution.clients,
                              distribution.dropoutTolerance) :
         LET result == distributeShares(distribution.clientId, distribution.clients,
                                        distribution.dropoutTolerance, rnd)
         IN  distribution' =
               IF result.threw
               THEN [distribution EXCEPT !.pc = "threw"]
               ELSE [distribution EXCEPT
                       !.pc = "returned",
                       !.secrets = [o \in DOMAIN rnd |-> rnd[o].secret],
                       !.distributions = result.distributions]
    /\ UNCHANGED <<shamir, masking, tracker, rng, voprf, batch, aggVars, cliVars>>

DistributionNext == distributeSharesCall

\* One distributeShares call alone
InitDistribution == DistributionInit /\ ShamirIdle /\ MaskIdle /\ TrackerIdle /\ RngIdle
                       /\ VoprfIdle /\ BatchIdle /\ AggIdle /\ ClientIdle

SpecDistribution == InitDistribution /\ [][DistributionNext]_vars

\* C31 (share distribution on submit): the distribution of a submission
\* with n participants draws one secret, every share carries the threshold
\* n - dropoutTolerance, and every peer is handed exactly one share.
C31_OneSharePerPeer ==
    distribution.pc = "returned" =>
        /\ Len(distribution.secrets) = 1
        /\ \A i \in DOMAIN distribution.distributions :
              /\ distribution.clients[i] # distribution.clientId
                    => Len(distribution.distributions[i]) = 1
              /\ \A j \in DOMAIN distribution.distributions[i] :
                    distribution.distributions[i][j].threshold
                        = Len(distribution.clients) - distribution.dropoutTolerance

(***************************************************************************)
(* dp/tasks.ts: DPBatchProcessor                                           *)
(***************************************************************************)

\* Bound: the number of count, sum and mean calls made on the processor
MaxBatchCalls == 3

\* The arguments of the calls: the total budget of the processor, the
\* budget, the mechanism and the values of an operation
BatchTotalSamples == {DPBudget(3, undefined), DPBudget(3, <<2>>)}
BatchBudgetSamples == {DPBudget(e, d) : e \in {1, 4}, d \in {undefined, <<1>>}}
MechanismSamples == {"laplace", "gaussian"}
ValuesSamples == {<<>>, <<1>>}

\* calibrateNoise(mechanism, sensitivity, budget): the error it throws, ""
\* when it returns
calibrateNoiseError(mechanism, budget) ==
    IF mechanism = "laplace"
    THEN IF budget.delta # undefined
         THEN "Laplace mechanism does not use delta parameter" ELSE ""
    ELSE IF budget.delta = undefined
         THEN "Gaussian mechanisms require delta parameter" ELSE ""

\* dpCount, dpSum, dpMean: the error thrown, "" when a result is returned
dpCountError(budget, mechanism) == calibrateNoiseError(mechanism, budget)
dpSumError(values, budget, mechanism) == calibrateNoiseError(mechanism, budget)
dpMeanError(values, budget, mechanism) ==
    IF Len(values) = 0 THEN "Cannot calculate mean of empty array"
    ELSE calibrateNoiseError(mechanism, budget)

\* The DPResult of an operation; the noisy value is left out
DPResult(mechanism, budget) == [mechanism |-> mechanism, budget |-> budget]

\* this.tracker.spend(budget) on the tracker t of the processor: the error
\* thrown and the tracker after the call
trackerSpend(t, budget) ==
    IF ~canSpend(t.remainingBudget, budget)
    THEN [error |-> "Insufficient privacy budget", tracker |-> t]
    ELSE [error |-> "",
          tracker |-> [t EXCEPT
              !.remainingBudget.epsilon = @ - budget.epsilon,
              !.remainingBudget.delta =
                  IF @ # undefined /\ budget.delta # undefined
                  THEN <<@[1] - budget.delta[1]>> ELSE @,
              !.spentBudget.epsilon = @ + budget.epsilon,
              !.spentBudget.delta =
                  IF budget.delta # undefined
                  THEN <<OrElse(@, 0) + budget.delta[1]>> ELSE @]]

\* new DPBatchProcessor(totalBudget)
BatchInit ==
    \E totalBudget \in BatchTotalSamples :
        batch = [tracker |-> [remainingBudget |-> totalBudget,
                              spentBudget |-> DPBudget(0, <<0>>)],
                 results |-> <<>>, totalBudget |-> totalBudget,
                 calls |-> 0, lastError |-> ""]

\* The processor after one of count(), sum(), mean(): spend, then the task,
\* then the result is pushed; taskError is the error of the task. An error
\* thrown ends the call where it is thrown.
Operation(budget, mechanism, taskError) ==
    LET spent == trackerSpend(batch.tracker, budget)
    IN  IF spent.error # ""
        THEN [batch EXCEPT !.calls = @ + 1, !.lastError = spent.error]
        ELSE IF taskError # ""
        THEN [batch EXCEPT !.calls = @ + 1, !.lastError = taskError,
                           !.tracker = spent.tracker]
        ELSE [batch EXCEPT !.calls = @ + 1, !.lastError = "",
                           !.tracker = spent.tracker,
                           !.results = Append(@, DPResult(mechanism, budget))]

\* count(count, budget, mechanism)
count(budget, mechanism) ==
    /\ batch.calls < MaxBatchCalls
    /\ batch' = Operation(budget, mechanism, dpCountError(budget, mechanism))
    /\ UNCHANGED <<shamir, masking, tracker, rng, voprf, distribution, aggVars, cliVars>>

\* sum(values, clip, budget, mechanism)
sum(values, budget, mechanism) ==
    /\ batch.calls < MaxBatchCalls
    /\ batch' = Operation(budget, mechanism, dpSumError(values, budget, mechanism))
    /\ UNCHANGED <<shamir, masking, tracker, rng, voprf, distribution, aggVars, cliVars>>

\* mean(values, clip, budget, mechanism)
mean(values, budget, mechanism) ==
    /\ batch.calls < MaxBatchCalls
    /\ batch' = Operation(budget, mechanism, dpMeanError(values, budget, mechanism))
    /\ UNCHANGED <<shamir, masking, tracker, rng, voprf, distribution, aggVars, cliVars>>

\* getRemainingBudget(), getResults()
getRemainingBudget == batch.tracker.remainingBudget
getResults == batch.results

BatchNext ==
    \E budget \in BatchBudgetSamples, mechanism \in MechanismSamples :
        \/ count(budget, mechanism)
        \/ \E values \in ValuesSamples : sum(values, budget, mechanism)
        \/ \E values \in ValuesSamples : mean(values, budget, mechanism)

\* The batch processor alone
InitBatch == BatchInit /\ ShamirIdle /\ MaskIdle /\ TrackerIdle /\ RngIdle /\ VoprfIdle
                /\ DistributionIdle /\ AggIdle /\ ClientIdle

SpecBatch == InitBatch /\ [][BatchNext]_vars

\* The sums of the epsilons and of the deltas of the budgets of results
RECURSIVE ResultsEpsilon(_)
ResultsEpsilon(results) ==
    IF results = <<>> THEN 0
    ELSE Head(results).budget.epsilon + ResultsEpsilon(Tail(results))
RECURSIVE ResultsDelta(_)
ResultsDelta(results) ==
    IF results = <<>> THEN 0
    ELSE OrElse(Head(results).budget.delta, 0) + ResultsDelta(Tail(results))

\* C39 (a failed batch operation consumes nothing): the remaining budget is
\* the total budget minus the budgets of the results in getResults(), in
\* epsilon and, for a processor created with a delta, in delta.
C39_FailedOperationConsumesNothing ==
    /\ getRemainingBudget.epsilon
          = batch.totalBudget.epsilon - ResultsEpsilon(getResults)
    /\ batch.totalBudget.delta # undefined =>
          getRemainingBudget.delta[1]
              = batch.totalBudget.delta[1] - ResultsDelta(getResults)

====
